---- MODULE Spec2Model ----
(***************************************************************************)
(* State-access adapters of src/clarity_vm/database/mod.rs:                *)
(*   - MemoryBackingStore (impl ClarityBackingStore), lines 123-189        *)
(*   - impl HeadersDB for DBConn, lines 23-73                              *)
(*   - impl BurnStateDB for SortitionHandleTx / SortitionDBConn, 75-121    *)
(* The three components share no state, so each has a specification of    *)
(* its own (SpecStore, SpecHeaders, SpecBurn, and SpecHeadersFault and     *)
(* SpecBurnFault over storage that may be corrupted or fail).  `last`      *)
(* records the most recent call (operation, arguments, outcome) and `pc`   *)
(* whether the process is still running or was aborted by a panic.         *)
(***************************************************************************)
EXTENDS Integers, Sequences, FiniteSets, TLC

VARIABLES
    pc,             \* "running" | "aborted" (a panic unwinds the process)
    last,           \* the most recent call: [op, arg, ret]
    side_store,     \* MemoryBackingStore.side_store: data_table, key -> value
    lastWritten,    \* history: per key, the value of the latest pair handed to put_all
    block_headers,  \* header ledger: rows of table block_headers
    payments,       \* header ledger: rows of table payments
    headerWritten,  \* history: per block id, the HeaderRecord the ledger accepted
    snapshots,      \* sortition ledger, committed: SortitionId -> snapshot
    txOpen,         \* whether a write transaction (SortitionHandleTx) is open
    txContext,      \* the open transaction's SortitionHandleContext
    txSnapshots,    \* the ledger as seen through the write transaction
    ancestry        \* history: per snapshot, its fork from the first snapshot on

storeVars == <<side_store, lastWritten>>
headerVars == <<block_headers, payments, headerWritten>>
burnVars == <<snapshots, txOpen, txContext, txSnapshots, ancestry>>
vars == <<pc, last, storeVars, headerVars, burnVars>>

(***************************************************************************)
(* Rust values                                                             *)
(***************************************************************************)
None == <<"None">>
Some(v) == <<"Some", v>>
Ok(v) == <<"Ok", v>>
Err(e) == <<"Err", e>>
Unit == <<"()">>
Panic(msg) == <<"panic", msg>>

\* How evaluating a call ends: it returns a value or it panics.
Returned(v) == <<"return", v>>

IsSome(o) == o[1] = "Some"
IsPanic(r) == r[1] = "panic"

\* Result::expect
expect(res, msg) == IF res[1] = "Ok" THEN Returned(res[2]) ELSE Panic(msg)

\* Option::map, the closure given as a function
Option_map(o, f) == IF IsSome(o) THEN Some(f[o[2]]) ELSE None

(***************************************************************************)
(* Bounds and input domains                                                *)
(***************************************************************************)
MaxBatch == 2
MaxBoot == 1
MaxHeight == 2

Keys == {"k1", "k2"}
Values == {"v1", "v2"}
Pairs == Keys \X Values
RECURSIVE SeqsUpTo(_, _)
SeqsUpTo(S, n) ==
    IF n = 0 THEN {<<>>}
    ELSE LET shorter == SeqsUpTo(S, n - 1)
         IN shorter \cup {Append(s, x) : s \in {t \in shorter : Len(t) = n - 1}, x \in S}
Batches == SeqsUpTo(Pairs, MaxBatch)

\* 32-byte identifiers, abstracted to their byte content
SENTINEL_ARRAY == "ff"
IdBytes == {"00", "01", SENTINEL_ARRAY}
StacksBlockId(bytes) == <<"StacksBlockId", bytes>>
BlockHeaderHash(bytes) == <<"BlockHeaderHash", bytes>>
StacksBlockId_sentinel == StacksBlockId(SENTINEL_ARRAY)
StacksBlockIds == {StacksBlockId(b) : b \in IdBytes}
Heights == 0 .. MaxHeight

TrieMerkleProof(path) == <<"TrieMerkleProof", path>>

(***************************************************************************)
(* MemoryBackingStore                                                      *)
(***************************************************************************)
NoRow == "NoRow"
EmptyTable == [k \in Keys |-> NoRow]

\* REPLACE INTO data_table (key, value) VALUES (?, ?)
SqliteConnection_put(table, key, value) == [table EXCEPT ![key] = value]

\* SELECT value FROM data_table WHERE key = ?
SqliteConnection_get(table, key) ==
    IF table[key] = NoRow THEN None ELSE Some(table[key])

\* Variant: the batch applied from its last pair to its first.
RECURSIVE put_all_reversed(_, _)
put_all_reversed(store, items) ==
    IF items = <<>> THEN store
    ELSE LET n == Len(items)
         IN put_all_reversed(SqliteConnection_put(store, items[n][1], items[n][2]),
                             SubSeq(items, 1, n - 1))

\* for (key, value) in items.into_iter() { SqliteConnection::put(..) }
RECURSIVE put_all(_, _)
put_all(store, items) ==
    IF items = <<>> THEN store
    ELSE put_all(SqliteConnection_put(store, Head(items)[1], Head(items)[2]), Tail(items))

get(store, key) == SqliteConnection_get(store, key)

get_with_proof(store, key) ==
    Option_map(SqliteConnection_get(store, key),
               [x \in Values |-> <<x, TrieMerkleProof(<<>>)>>])

\* RuntimeErrorType::UnknownBlockHeaderHash, and `.into()` an interpreter
\* error: Error::Runtime(err, None)
UnknownBlockHeaderHash(hash) == <<"UnknownBlockHeaderHash", hash>>
into_Error(err) == <<"Runtime", err, None>>

\* Variant: the sentinel identifier, the store's only block, is accepted.
set_block_hash_accepts_sentinel(bhh) ==
    IF bhh = StacksBlockId_sentinel THEN Ok(bhh)
    ELSE Err(into_Error(UnknownBlockHeaderHash(BlockHeaderHash(bhh[2]))))

set_block_hash(bhh) == Err(into_Error(UnknownBlockHeaderHash(BlockHeaderHash(bhh[2]))))

\* Variant: height 1 also names the genesis block.
get_block_at_height_off_by_one(height) ==
    IF height <= 1 THEN Some(StacksBlockId_sentinel) ELSE None

get_block_at_height(height) ==
    IF height = 0 THEN Some(StacksBlockId_sentinel) ELSE None

get_open_chain_tip == StacksBlockId_sentinel
get_open_chain_tip_height == 0
get_current_block_height == 0

\* The latest value of `key` in a batch, or `before` when the batch has none.
LatestIn(items, key, before) ==
    LET idx == {i \in 1 .. Len(items) : items[i][1] = key}
    IN IF idx = {} THEN before
       ELSE items[CHOOSE i \in idx : \A j \in idx : j <= i][2]

\* MemoryBackingStore::new(): an empty in-memory table, then
\* as_clarity_db().initialize(); whatever that writes reaches the table
\* through put_all.
MemoryBackingStore_new ==
    \E boot \in SeqsUpTo(Pairs, MaxBoot) :
        /\ side_store = put_all(EmptyTable, boot)
        /\ lastWritten = [k \in Keys |-> LatestIn(boot, k, NoRow)]

Call_put_all(items) ==
    /\ pc = "running"
    /\ side_store' = put_all(side_store, items)
    /\ lastWritten' = [k \in Keys |-> LatestIn(items, k, lastWritten[k])]
    /\ last' = [op |-> "put_all", arg |-> items, ret |-> Unit]
    /\ UNCHANGED <<pc, headerVars, burnVars>>

Call_get(key) ==
    /\ pc = "running"
    /\ last' = [op |-> "get", arg |-> key, ret |-> get(side_store, key)]
    /\ UNCHANGED <<pc, storeVars, headerVars, burnVars>>

Call_get_with_proof(key) ==
    /\ pc = "running"
    /\ last' = [op |-> "get_with_proof", arg |-> key, ret |-> get_with_proof(side_store, key)]
    /\ UNCHANGED <<pc, storeVars, headerVars, burnVars>>

Call_set_block_hash(bhh) ==
    /\ pc = "running"
    /\ last' = [op |-> "set_block_hash", arg |-> bhh, ret |-> set_block_hash(bhh)]
    /\ UNCHANGED <<pc, storeVars, headerVars, burnVars>>

Call_get_block_at_height(height) ==
    /\ pc = "running"
    /\ last' = [op |-> "get_block_at_height", arg |-> height, ret |-> get_block_at_height(height)]
    /\ UNCHANGED <<pc, storeVars, headerVars, burnVars>>

Call_get_open_chain_tip ==
    /\ pc = "running"
    /\ last' = [op |-> "get_open_chain_tip", arg |-> Unit, ret |-> get_open_chain_tip]
    /\ UNCHANGED <<pc, storeVars, headerVars, burnVars>>

Call_get_open_chain_tip_height ==
    /\ pc = "running"
    /\ last' = [op |-> "get_open_chain_tip_height", arg |-> Unit, ret |-> get_open_chain_tip_height]
    /\ UNCHANGED <<pc, storeVars, headerVars, burnVars>>

Call_get_current_block_height ==
    /\ pc = "running"
    /\ last' = [op |-> "get_current_block_height", arg |-> Unit, ret |-> get_current_block_height]
    /\ UNCHANGED <<pc, storeVars, headerVars, burnVars>>

NextStore ==
    \/ \E items \in Batches : Call_put_all(items)
    \/ \E key \in Keys : Call_get(key)
    \/ \E key \in Keys : Call_get_with_proof(key)
    \/ \E bhh \in StacksBlockIds : Call_set_block_hash(bhh)
    \/ \E height \in Heights : Call_get_block_at_height(height)
    \/ Call_get_open_chain_tip
    \/ Call_get_open_chain_tip_height
    \/ Call_get_current_block_height

(***************************************************************************)
(* Header ledger (block_headers, payments) and impl HeadersDB for DBConn   *)
(***************************************************************************)
MaxHeaderRows == 2
MaxPaymentRows == 2

HeaderIds == {StacksBlockId("00"), StacksBlockId("01")}
\* StacksHeaderInfo, as far as the accessor reads it
StacksHeaderInfos ==
    { [anchored_header |-> "hdrA", burn_header_hash |-> "burnA",
       burn_header_timestamp |-> 100, burn_header_height |-> 1],
      [anchored_header |-> "hdrB", burn_header_hash |-> "burnB",
       burn_header_timestamp |-> 200, burn_header_height |-> 2] }
StacksAddresses == {"addrA", "addrB"}
\* MinerPaymentSchedule, as far as the accessor reads it
MinerPaymentSchedules == [address : StacksAddresses]

\* A stored row: its columns decode to a record, or they do not.
Decodable(record) == <<"columns", record>>
Garbage == <<"garbage">>
HeaderRows == [index_block_hash : HeaderIds, columns : {Decodable(i) : i \in StacksHeaderInfos}]
PaymentRows == [index_block_hash : HeaderIds, miner : {0, 1},
                columns : {Decodable(p) : p \in MinerPaymentSchedules}]
CorruptHeaderRows == [index_block_hash : HeaderIds, columns : {Garbage}]
CorruptPaymentRows == [index_block_hash : HeaderIds, miner : {0, 1}, columns : {Garbage}]

\* StacksHeaderInfo::from_row / MinerPaymentSchedule::from_row
from_row(x) == IF x.columns[1] = "columns" THEN Ok(x.columns[2]) ELSE Err("ParseError")

\* anchored_header.block_hash(): the hash of the header
block_hash(anchored_header) == BlockHeaderHash(<<"sha512_256", anchored_header>>)
\* anchored_header.proof, and VRFSeed::from_proof: the hash of the proof
proof_of(anchored_header) == <<"VRFProof", anchored_header>>
VRFSeed_from_proof(proof) == <<"VRFSeed", <<"sha512_256", proof>>>>

\* Variant: SELECT * FROM block_headers
SELECT_block_headers_any(conn, id_bhh) == conn

\* SELECT * FROM block_headers WHERE index_block_hash = ?
SELECT_block_headers(conn, id_bhh) == {r \in conn : r.index_block_hash = id_bhh}

\* Variant: SELECT * FROM payments WHERE index_block_hash = ?
SELECT_payments_any_slot(conn, id_bhh) == {r \in conn : r.index_block_hash = id_bhh}

\* SELECT * FROM payments WHERE index_block_hash = ? AND miner = 1
SELECT_payments(conn, id_bhh) == {r \in conn : r.index_block_hash = id_bhh /\ r.miner = 1}

\* What stepping the prepared statement once can give: a row of the result
\* (the order of the rows of a SELECT without ORDER BY is unspecified), the
\* end of the result, or, on a failing storage layer, an error.
SqlSteps(result, failing) ==
    (IF result = {} THEN {<<"Done">>} ELSE {<<"Row", r>> : r \in result})
        \cup (IF failing THEN {<<"Error">>} ELSE {})

\* rusqlite Connection::query_row: the first row goes to the closure, the
\* rows after it are ignored; no row is Err(QueryReturnedNoRows).
query_row(step, f) ==
    CASE step[1] = "Error" -> Returned(Err("SqliteFailure"))
      [] step[1] = "Done" -> Returned(Err("QueryReturnedNoRows"))
      [] step[1] = "Row" -> f[step[2]]

\* rusqlite OptionalExtension::optional
optional(res) ==
    IF res[1] = "Ok" THEN Ok(Some(res[2]))
    ELSE IF res[2] = "QueryReturnedNoRows" THEN Ok(None)
    ELSE res

get_stacks_header_info(step) ==
    LET closure ==
            [x \in HeaderRows \cup CorruptHeaderRows |->
                LET info == expect(from_row(x), "Bad stacks header info in database")
                IN IF IsPanic(info) THEN info ELSE Returned(Ok(info[2]))]
        row == query_row(step, closure)
    IN IF IsPanic(row) THEN row
       ELSE expect(optional(row[2]), "Unexpected SQL failure querying block header table")

get_miner_info(step) ==
    LET closure ==
            [x \in PaymentRows \cup CorruptPaymentRows |->
                LET info == expect(from_row(x), "Bad payment info in database")
                IN IF IsPanic(info) THEN info ELSE Returned(Ok(info[2]))]
        row == query_row(step, closure)
    IN IF IsPanic(row) THEN row
       ELSE expect(optional(row[2]), "Unexpected SQL failure querying payment table")

\* f(..).map(|x| ..) around a call that may panic
MapReturned(outcome, f) ==
    IF IsPanic(outcome) THEN outcome ELSE Returned(Option_map(outcome[2], f))

get_stacks_block_header_hash_for_block(step) ==
    MapReturned(get_stacks_header_info(step),
                [x \in StacksHeaderInfos |-> block_hash(x.anchored_header)])

get_burn_header_hash_for_block(step) ==
    MapReturned(get_stacks_header_info(step),
                [x \in StacksHeaderInfos |-> x.burn_header_hash])

get_burn_block_time_for_block(step) ==
    MapReturned(get_stacks_header_info(step),
                [x \in StacksHeaderInfos |-> x.burn_header_timestamp])

get_burn_block_height_for_block(step) ==
    MapReturned(get_stacks_header_info(step),
                [x \in StacksHeaderInfos |-> x.burn_header_height])

get_vrf_seed_for_block(step) ==
    MapReturned(get_stacks_header_info(step),
                [x \in StacksHeaderInfos |-> VRFSeed_from_proof(proof_of(x.anchored_header))])

get_miner_address(step) ==
    MapReturned(get_miner_info(step), [x \in MinerPaymentSchedules |-> x.address])

HeaderQueries ==
    {"get_stacks_block_header_hash_for_block", "get_burn_header_hash_for_block",
     "get_burn_block_time_for_block", "get_burn_block_height_for_block",
     "get_vrf_seed_for_block"}

\* One of the five HeaderRecord queries, by name.
HeaderQuery(op, step) ==
    CASE op = "get_stacks_block_header_hash_for_block" -> get_stacks_block_header_hash_for_block(step)
      [] op = "get_burn_header_hash_for_block" -> get_burn_header_hash_for_block(step)
      [] op = "get_burn_block_time_for_block" -> get_burn_block_time_for_block(step)
      [] op = "get_burn_block_height_for_block" -> get_burn_block_height_for_block(step)
      [] op = "get_vrf_seed_for_block" -> get_vrf_seed_for_block(step)

NoRecord == <<"none">>
HeadersDB_open ==
    /\ block_headers = {}
    /\ payments = {}
    /\ headerWritten = [b \in HeaderIds |-> NoRecord]

Written == [op |-> "INSERT", arg |-> Unit, ret |-> Unit]

\* The ledger accepts a block: one HeaderRecord per BlockIdentifier, written once.
insert_stacks_block_header(id, info) ==
    /\ pc = "running"
    /\ Cardinality(block_headers) < MaxHeaderRows
    /\ \A r \in block_headers : r.index_block_hash # id
    /\ block_headers' = block_headers \cup {[index_block_hash |-> id, columns |-> Decodable(info)]}
    /\ headerWritten' = [headerWritten EXCEPT ![id] = <<"record", info>>]
    /\ last' = Written
    /\ UNCHANGED <<pc, payments, storeVars, burnVars>>

\* The ledger schedules a payment; at most one row of a block has miner = 1.
insert_miner_payment_schedule(row) ==
    /\ pc = "running"
    /\ Cardinality(payments) < MaxPaymentRows
    /\ row \notin payments
    /\ row.miner = 1 =>
          \A r \in payments : ~(r.index_block_hash = row.index_block_hash /\ r.miner = 1)
    /\ payments' = payments \cup {row}
    /\ last' = Written
    /\ UNCHANGED <<pc, block_headers, headerWritten, storeVars, burnVars>>

\* Corruption: a row the ledger's invariants exclude (a second row for a
\* block, a second miner row, a row that does not decode).
corrupt_block_headers(row) ==
    /\ pc = "running"
    /\ Cardinality(block_headers) < MaxHeaderRows
    /\ row \notin block_headers
    /\ block_headers' = block_headers \cup {row}
    /\ last' = Written
    /\ UNCHANGED <<pc, payments, headerWritten, storeVars, burnVars>>

corrupt_payments(row) ==
    /\ pc = "running"
    /\ Cardinality(payments) < MaxPaymentRows
    /\ row \notin payments
    /\ payments' = payments \cup {row}
    /\ last' = Written
    /\ UNCHANGED <<pc, block_headers, headerWritten, storeVars, burnVars>>

Call_header_query(op, id_bhh, failing) ==
    /\ pc = "running"
    /\ \E step \in SqlSteps(SELECT_block_headers(block_headers, id_bhh), failing) :
          LET out == HeaderQuery(op, step)
          IN /\ last' = [op |-> op, arg |-> [id_bhh |-> id_bhh, step |-> step], ret |-> out]
             /\ pc' = IF IsPanic(out) THEN "aborted" ELSE "running"
    /\ UNCHANGED <<headerVars, storeVars, burnVars>>

Call_get_miner_address(id_bhh, failing) ==
    /\ pc = "running"
    /\ \E step \in SqlSteps(SELECT_payments(payments, id_bhh), failing) :
          LET out == get_miner_address(step)
          IN /\ last' = [op |-> "get_miner_address",
                          arg |-> [id_bhh |-> id_bhh, step |-> step], ret |-> out]
             /\ pc' = IF IsPanic(out) THEN "aborted" ELSE "running"
    /\ UNCHANGED <<headerVars, storeVars, burnVars>>

NextHeaders ==
    \/ \E id \in HeaderIds, info \in StacksHeaderInfos : insert_stacks_block_header(id, info)
    \/ \E row \in PaymentRows : insert_miner_payment_schedule(row)
    \/ \E op \in HeaderQueries, id \in HeaderIds : Call_header_query(op, id, FALSE)
    \/ \E id \in HeaderIds : Call_get_miner_address(id, FALSE)

NextHeadersFault ==
    \/ \E id \in HeaderIds, info \in StacksHeaderInfos : insert_stacks_block_header(id, info)
    \/ \E row \in PaymentRows : insert_miner_payment_schedule(row)
    \/ \E row \in HeaderRows \cup CorruptHeaderRows : corrupt_block_headers(row)
    \/ \E row \in PaymentRows \cup CorruptPaymentRows : corrupt_payments(row)
    \/ \E op \in HeaderQueries, id \in HeaderIds, failing \in BOOLEAN :
          Call_header_query(op, id, failing)
    \/ \E id \in HeaderIds, failing \in BOOLEAN : Call_get_miner_address(id, failing)

(***************************************************************************)
(* Sortition ledger and impl BurnStateDB for SortitionHandleTx (write      *)
(* transaction) and SortitionDBConn (read-only connection)                 *)
(***************************************************************************)
MaxBurnHeight == 2

SortitionIdOrder == <<"s0", "s1", "s2", "s3">>
SortitionIds == {SortitionIdOrder[i] : i \in 1 .. Len(SortitionIdOrder)}
FirstSortitionId == SortitionIdOrder[1]
BurnchainHeaderHashes == {"bhA", "bhB"}
BurnHeights == 0 .. MaxBurnHeight

NoSnapshot == <<"none">>
Snapshot(sn) == <<"snapshot", sn>>
NoContext == [chain_tip |-> "closed", first_block_height |-> 0]

\* `x as u32` of a u64 height. Heights of the model are below 2^31, where
\* the cast keeps the value.
as_u32(x) == x
\* `height as u64` of a u32
as_u64(x) == x

\* What the storage layer does to one call: nothing, a failing query, or a
\* failure to open a handle.
QueryFaults == {"none", "query_err"}
Faults == {"none", "query_err", "open_err"}

\* SortitionDB::get_block_snapshot: SELECT * FROM snapshots WHERE sortition_id = ?
get_block_snapshot(conn, sortition_id, fault) ==
    IF fault = "query_err" THEN Err("db_error")
    ELSE IF conn[sortition_id] = NoSnapshot THEN Ok(None)
    ELSE Ok(Some(conn[sortition_id][2]))

\* The ancestor of `tip` at `height`, following the fork `tip` is on.
RECURSIVE get_ancestor_snapshot(_, _, _)
get_ancestor_snapshot(conn, height, tip) ==
    IF tip \notin SortitionIds \/ conn[tip] = NoSnapshot THEN None
    ELSE LET sn == conn[tip][2]
         IN IF sn.block_height = height THEN Some(sn)
            ELSE IF sn.block_height < height \/ sn.parent_sortition_id = tip THEN None
            ELSE get_ancestor_snapshot(conn, height, sn.parent_sortition_id)

\* SortitionHandleConn::new
SortitionHandleConn_new(index, context) == [index |-> index, context |-> context]

\* SortitionHandleConn::get_block_snapshot_by_height
get_block_snapshot_by_height(db_handle, height, fault) ==
    IF fault = "query_err" THEN Err("db_error")
    ELSE IF height < db_handle.context.first_block_height THEN Ok(None)
    ELSE Ok(get_ancestor_snapshot(db_handle.index, height, db_handle.context.chain_tip))

\* self.index().reopen_readonly(): a second, read-only handle; it reads the
\* committed ledger, not the writes of the open transaction.
reopen_readonly(self, fault) ==
    IF fault = "open_err" THEN Err("db_error") ELSE Ok(self.committed)

\* SortitionHandleConn::open_reader(conn, chain_tip)
open_reader(self, chain_tip, fault) ==
    IF fault = "open_err" THEN Err("db_error")
    ELSE Ok(SortitionHandleConn_new(self.conn,
                [chain_tip |-> chain_tip, first_block_height |-> self.first_block_height]))

\* The receiver of a transactional call, and of a read-only call.
SortitionHandleTx_self ==
    [context |-> txContext, tx |-> txSnapshots, committed |-> snapshots]
SortitionDBConn_self == [conn |-> snapshots, first_block_height |-> 0]

\* <SortitionHandleTx as BurnStateDB>::get_burn_block_height
Tx_get_burn_block_height(self, sortition_id, fault) ==
    LET r == get_block_snapshot(self.tx, sortition_id, fault)
    IN IF r[1] = "Ok" /\ IsSome(r[2]) THEN Returned(Some(as_u32(r[2][2].block_height)))
       ELSE Returned(None)

\* The transactional get_burn_header_hash gives the outcome of the call and
\* the receiver's context after it.
\* Variant: the height query runs on the write transaction itself.
Tx_get_burn_header_hash_through_tx(self, height, sortition_id, fault) ==
    LET context == [self.context EXCEPT !.chain_tip = sortition_id]
        db_handle == SortitionHandleConn_new(self.tx, context)
        r == get_block_snapshot_by_height(db_handle, as_u64(height), fault)
    IN [ret |-> IF r[1] = "Ok" /\ IsSome(r[2])
                THEN Returned(Some(r[2][2].burn_header_hash))
                ELSE Returned(None),
        context |-> self.context]

\* Variant: the receiver's own context is rebased, not a clone of it.
Tx_get_burn_header_hash_no_clone(self, height, sortition_id, fault) ==
    LET readonly_marf ==
            expect(reopen_readonly(self, fault),
                   "BUG: failure trying to get a read-only interface into the sortition db.")
    IN IF IsPanic(readonly_marf) THEN [ret |-> readonly_marf, context |-> self.context]
       ELSE LET context == [self.context EXCEPT !.chain_tip = sortition_id]
                db_handle == SortitionHandleConn_new(readonly_marf[2], context)
                r == get_block_snapshot_by_height(db_handle, as_u64(height), fault)
            IN [ret |-> IF r[1] = "Ok" /\ IsSome(r[2])
                        THEN Returned(Some(r[2][2].burn_header_hash))
                        ELSE Returned(None),
                context |-> context]

\* Variant: a failure to reopen read-only is answered with None.
Tx_get_burn_header_hash_open_err_is_none(self, height, sortition_id, fault) ==
    LET opened == reopen_readonly(self, fault)
    IN IF opened[1] # "Ok" THEN [ret |-> Returned(None), context |-> self.context]
       ELSE LET context == [self.context EXCEPT !.chain_tip = sortition_id]
                db_handle == SortitionHandleConn_new(opened[2], context)
                r == get_block_snapshot_by_height(db_handle, as_u64(height), fault)
            IN [ret |-> IF r[1] = "Ok" /\ IsSome(r[2])
                        THEN Returned(Some(r[2][2].burn_header_hash))
                        ELSE Returned(None),
                context |-> self.context]

\* <SortitionHandleTx as BurnStateDB>::get_burn_header_hash. The context that
\* is rebased is a clone: the receiver keeps its own.
Tx_get_burn_header_hash(self, height, sortition_id, fault) ==
    LET readonly_marf ==
            expect(reopen_readonly(self, fault),
                   "BUG: failure trying to get a read-only interface into the sortition db.")
    IN IF IsPanic(readonly_marf) THEN [ret |-> readonly_marf, context |-> self.context]
       ELSE LET context == [self.context EXCEPT !.chain_tip = sortition_id]
                db_handle == SortitionHandleConn_new(readonly_marf[2], context)
                r == get_block_snapshot_by_height(db_handle, as_u64(height), fault)
            IN [ret |-> IF r[1] = "Ok" /\ IsSome(r[2])
                        THEN Returned(Some(r[2][2].burn_header_hash))
                        ELSE Returned(None),
                context |-> self.context]

\* <SortitionDBConn as BurnStateDB>::get_burn_block_height
Conn_get_burn_block_height(self, sortition_id, fault) ==
    LET r == get_block_snapshot(self.conn, sortition_id, fault)
    IN IF r[1] = "Ok" /\ IsSome(r[2]) THEN Returned(Some(as_u32(r[2][2].block_height)))
       ELSE Returned(None)

\* Variant: only the snapshot of sortition_id itself is looked at.
Conn_get_burn_header_hash_tip_only(self, height, sortition_id, fault) ==
    LET r == get_block_snapshot(self.conn, sortition_id, fault)
    IN IF r[1] = "Ok" /\ IsSome(r[2]) /\ r[2][2].block_height = height
       THEN Returned(Some(r[2][2].burn_header_hash))
       ELSE Returned(None)

\* <SortitionDBConn as BurnStateDB>::get_burn_header_hash
Conn_get_burn_header_hash(self, height, sortition_id, fault) ==
    LET opened == open_reader(self, sortition_id, fault)
    IN IF opened[1] # "Ok" THEN Returned(None)
       ELSE LET db_handle == opened[2]
                r == get_block_snapshot_by_height(db_handle, as_u64(height), fault)
            IN IF r[1] = "Ok" /\ IsSome(r[2])
               THEN Returned(Some(r[2][2].burn_header_hash))
               ELSE Returned(None)

\* SortitionDB::connect: the ledger holds the first snapshot.
SortitionDB_connect ==
    /\ snapshots = [s \in SortitionIds |->
                       IF s = FirstSortitionId
                       THEN Snapshot([block_height |-> 0, burn_header_hash |-> "bhA",
                                      parent_sortition_id |-> FirstSortitionId])
                       ELSE NoSnapshot]
    /\ txOpen = FALSE
    /\ txContext = NoContext
    /\ txSnapshots = snapshots
    /\ ancestry = [s \in SortitionIds |-> IF s = FirstSortitionId THEN <<s>> ELSE <<>>]

Wrote(op) == [op |-> op, arg |-> Unit, ret |-> Unit]

\* SortitionDB::tx_begin_at_tip / tx_handle_begin(chain_tip)
tx_handle_begin(chain_tip) ==
    /\ pc = "running"
    /\ ~txOpen
    /\ snapshots[chain_tip] # NoSnapshot
    /\ txOpen' = TRUE
    /\ txContext' = [chain_tip |-> chain_tip, first_block_height |-> 0]
    /\ last' = Wrote("tx_handle_begin")
    /\ UNCHANGED <<pc, snapshots, txSnapshots, ancestry, storeVars, headerVars>>

\* The identifier of the next snapshot: the first one not in use (a
\* SortitionId is a hash, so a new snapshot never takes a used one).
IsFresh(sortition_id) ==
    \E i \in 1 .. Len(SortitionIdOrder) :
        /\ SortitionIdOrder[i] = sortition_id
        /\ txSnapshots[sortition_id] = NoSnapshot
        /\ \A j \in 1 .. (i - 1) : txSnapshots[SortitionIdOrder[j]] # NoSnapshot

\* SortitionHandleTx::append_chain_tip_snapshot: a child of the chain tip,
\* written inside the transaction; the tip moves to it.
append_chain_tip_snapshot(sortition_id, burn_header_hash) ==
    /\ pc = "running"
    /\ txOpen
    /\ IsFresh(sortition_id)
    /\ txSnapshots[txContext.chain_tip] # NoSnapshot
    /\ LET parent == txSnapshots[txContext.chain_tip][2]
       IN /\ parent.block_height < MaxBurnHeight
          /\ txSnapshots' =
                [txSnapshots EXCEPT ![sortition_id] =
                    Snapshot([block_height |-> parent.block_height + 1,
                              burn_header_hash |-> burn_header_hash,
                              parent_sortition_id |-> txContext.chain_tip])]
    /\ ancestry' = [ancestry EXCEPT ![sortition_id] =
                        Append(ancestry[txContext.chain_tip], sortition_id)]
    /\ txContext' = [txContext EXCEPT !.chain_tip = sortition_id]
    /\ last' = Wrote("append_chain_tip_snapshot")
    /\ UNCHANGED <<pc, snapshots, txOpen, storeVars, headerVars>>

\* SortitionHandleTx::commit
tx_commit ==
    /\ pc = "running"
    /\ txOpen
    /\ snapshots' = txSnapshots
    /\ txOpen' = FALSE
    /\ txContext' = NoContext
    /\ last' = Wrote("commit")
    /\ UNCHANGED <<pc, txSnapshots, ancestry, storeVars, headerVars>>

\* The transaction is dropped without commit.
tx_rollback ==
    /\ pc = "running"
    /\ txOpen
    /\ txSnapshots' = snapshots
    /\ ancestry' = [s \in SortitionIds |-> IF snapshots[s] = NoSnapshot THEN <<>> ELSE ancestry[s]]
    /\ txOpen' = FALSE
    /\ txContext' = NoContext
    /\ last' = Wrote("rollback")
    /\ UNCHANGED <<pc, snapshots, storeVars, headerVars>>

BurnCall(op, height, sortition_id, fault) ==
    [op |-> op, height |-> height, sortition_id |-> sortition_id, fault |-> fault,
     context |-> txContext]

Call_Tx_get_burn_block_height(sortition_id, fault) ==
    /\ pc = "running"
    /\ txOpen
    /\ LET out == Tx_get_burn_block_height(SortitionHandleTx_self, sortition_id, fault)
       IN /\ last' = [op |-> "Tx.get_burn_block_height",
                      arg |-> BurnCall("height", 0, sortition_id, fault), ret |-> out]
          /\ pc' = IF IsPanic(out) THEN "aborted" ELSE "running"
    /\ UNCHANGED <<burnVars, storeVars, headerVars>>

Call_Tx_get_burn_header_hash(height, sortition_id, fault) ==
    /\ pc = "running"
    /\ txOpen
    /\ LET out == Tx_get_burn_header_hash(SortitionHandleTx_self, height, sortition_id, fault)
       IN /\ last' = [op |-> "Tx.get_burn_header_hash",
                      arg |-> BurnCall("hash", height, sortition_id, fault), ret |-> out.ret]
          /\ txContext' = out.context
          /\ pc' = IF IsPanic(out.ret) THEN "aborted" ELSE "running"
    /\ UNCHANGED <<snapshots, txOpen, txSnapshots, ancestry, storeVars, headerVars>>

Call_Conn_get_burn_block_height(sortition_id, fault) ==
    /\ pc = "running"
    /\ LET out == Conn_get_burn_block_height(SortitionDBConn_self, sortition_id, fault)
       IN /\ last' = [op |-> "Conn.get_burn_block_height",
                      arg |-> BurnCall("height", 0, sortition_id, fault), ret |-> out]
          /\ pc' = IF IsPanic(out) THEN "aborted" ELSE "running"
    /\ UNCHANGED <<burnVars, storeVars, headerVars>>

Call_Conn_get_burn_header_hash(height, sortition_id, fault) ==
    /\ pc = "running"
    /\ LET out == Conn_get_burn_header_hash(SortitionDBConn_self, height, sortition_id, fault)
       IN /\ last' = [op |-> "Conn.get_burn_header_hash",
                      arg |-> BurnCall("hash", height, sortition_id, fault), ret |-> out]
          /\ pc' = IF IsPanic(out) THEN "aborted" ELSE "running"
    /\ UNCHANGED <<burnVars, storeVars, headerVars>>

NextLedger ==
    \/ \E s \in SortitionIds : tx_handle_begin(s)
    \/ \E s \in SortitionIds, b \in BurnchainHeaderHashes : append_chain_tip_snapshot(s, b)
    \/ tx_commit
    \/ tx_rollback

NextBurn ==
    \/ NextLedger
    \/ \E s \in SortitionIds : Call_Tx_get_burn_block_height(s, "none")
    \/ \E h \in BurnHeights, s \in SortitionIds : Call_Tx_get_burn_header_hash(h, s, "none")
    \/ \E s \in SortitionIds : Call_Conn_get_burn_block_height(s, "none")
    \/ \E h \in BurnHeights, s \in SortitionIds : Call_Conn_get_burn_header_hash(h, s, "none")

NextBurnFault ==
    \/ NextLedger
    \/ \E s \in SortitionIds, f \in QueryFaults : Call_Tx_get_burn_block_height(s, f)
    \/ \E h \in BurnHeights, s \in SortitionIds, f \in Faults :
          Call_Tx_get_burn_header_hash(h, s, f)
    \/ \E s \in SortitionIds, f \in QueryFaults : Call_Conn_get_burn_block_height(s, f)
    \/ \E h \in BurnHeights, s \in SortitionIds, f \in Faults :
          Call_Conn_get_burn_header_hash(h, s, f)

(***************************************************************************)
(* Specifications                                                          *)
(***************************************************************************)
Started ==
    /\ pc = "running"
    /\ last = [op |-> "new", arg |-> Unit, ret |-> Unit]

\* A store that is not part of the run stays as the empty table.
StoreUnused ==
    /\ side_store = EmptyTable
    /\ lastWritten = [k \in Keys |-> NoRow]

InitStore == Started /\ MemoryBackingStore_new /\ HeadersDB_open /\ SortitionDB_connect
InitHeaders == Started /\ StoreUnused /\ HeadersDB_open /\ SortitionDB_connect
InitBurn == Started /\ StoreUnused /\ HeadersDB_open /\ SortitionDB_connect

\* The in-memory Backing Store alone.
SpecStore == InitStore /\ [][NextStore]_vars
\* The Header Accessor over a ledger that keeps its invariants.
SpecHeaders == InitHeaders /\ [][NextHeaders]_vars
\* The Header Accessor over a ledger that may be corrupted or fail.
SpecHeadersFault == InitHeaders /\ [][NextHeadersFault]_vars
\* The Burn-State Accessors over a sortition ledger whose storage works.
SpecBurn == InitBurn /\ [][NextBurn]_vars
\* The Burn-State Accessors over a sortition ledger whose storage may fail.
SpecBurnFault == InitBurn /\ [][NextBurnFault]_vars

(***************************************************************************)
(* Properties                                                              *)
(***************************************************************************)
StoredOrAbsent(k) == IF lastWritten[k] = NoRow THEN None ELSE Some(lastWritten[k])
StoredWithEmptyProof(k) ==
    IF lastWritten[k] = NoRow THEN None ELSE Some(<<lastWritten[k], TrieMerkleProof(<<>>)>>)

\* C1: in the in-memory Backing Store, get(k) is the value of the latest pair
\* written for k (the pairs of a batch in list order), absent when k was never
\* written, and get_with_proof(k) is that value with the empty proof.
C1_LastWriteWins ==
    /\ \A k \in Keys :
          /\ get(side_store, k) = StoredOrAbsent(k)
          /\ get_with_proof(side_store, k) = StoredWithEmptyProof(k)
    /\ last.op = "get" => last.ret = StoredOrAbsent(last.arg)
    /\ last.op = "get_with_proof" => last.ret = StoredWithEmptyProof(last.arg)

\* A batch that writes one key twice, with two values, has just been applied
\* and the key reads as the second value; the other key was never written.
C1_Witness ==
    /\ last.op = "put_all"
    /\ Len(last.arg) = 2
    /\ last.arg[1][1] = last.arg[2][1]
    /\ last.arg[1][2] # last.arg[2][2]
    /\ get(side_store, last.arg[2][1]) = Some(last.arg[2][2])
    /\ get_with_proof(side_store, last.arg[2][1])
          = Some(<<last.arg[2][2], TrieMerkleProof(<<>>)>>)
    /\ \E k \in Keys : get(side_store, k) = None

\* C2: set_block_hash of the in-memory Backing Store never succeeds: it
\* returns the error UnknownBlockHeaderHash carrying the identifier passed
\* in, and the process keeps running.
C2_SetBlockHashFails ==
    last.op = "set_block_hash" =>
        /\ last.ret[1] = "Err"
        /\ last.ret[2] = <<"Runtime", <<"UnknownBlockHeaderHash", <<"BlockHeaderHash", last.arg[2]>>>>, None>>
        /\ pc = "running"

\* set_block_hash was called with the sentinel identifier on a store that
\* holds entries.
C2_Witness ==
    /\ last.op = "set_block_hash"
    /\ last.arg = StacksBlockId_sentinel
    /\ last.ret[1] = "Err"
    /\ \E k \in Keys : side_store[k] # NoRow

\* C3: the in-memory Backing Store simulates the genesis block alone:
\* get_block_at_height(0) is the sentinel identifier, get_block_at_height(h)
\* is absent for h > 0, the open chain tip is the sentinel identifier and
\* both heights are 0, in every state.
C3_GenesisOnly ==
    /\ \A h \in Heights :
          get_block_at_height(h) = IF h = 0 THEN Some(StacksBlockId(SENTINEL_ARRAY)) ELSE None
    /\ last.op = "get_block_at_height" =>
          last.ret = IF last.arg = 0 THEN Some(StacksBlockId(SENTINEL_ARRAY)) ELSE None
    /\ last.op = "get_open_chain_tip" => last.ret = StacksBlockId(SENTINEL_ARRAY)
    /\ last.op = "get_open_chain_tip_height" => last.ret = 0
    /\ last.op = "get_current_block_height" => last.ret = 0

\* get_block_at_height was called with a height above 0 on a store that
\* holds entries, and returned absence.
C3_Witness ==
    /\ last.op = "get_block_at_height"
    /\ last.arg > 0
    /\ last.ret = None
    /\ \E k \in Keys : side_store[k] # NoRow

\* What a HeaderRecord query answers for block b, from the record the ledger
\* accepted for b.
HeaderAnswer(op, b) ==
    IF headerWritten[b][1] = "none" THEN Returned(None)
    ELSE LET record == headerWritten[b][2]
         IN Returned(Some(
              CASE op = "get_stacks_block_header_hash_for_block" ->
                       BlockHeaderHash(<<"sha512_256", record.anchored_header>>)
                [] op = "get_burn_header_hash_for_block" -> record.burn_header_hash
                [] op = "get_burn_block_time_for_block" -> record.burn_header_timestamp
                [] op = "get_burn_block_height_for_block" -> record.burn_header_height
                [] op = "get_vrf_seed_for_block" ->
                       <<"VRFSeed", <<"sha512_256", <<"VRFProof", record.anchored_header>>>>>>))

\* C5: for every block b the five HeaderRecord queries are all present, with
\* the values of the one HeaderRecord written for b, or all absent, and they
\* are absent exactly when no HeaderRecord was written for b.
C5_AllOrNothing ==
    /\ \A b \in HeaderIds, op \in HeaderQueries :
          \A step \in SqlSteps(SELECT_block_headers(block_headers, b), FALSE) :
              HeaderQuery(op, step) = HeaderAnswer(op, b)
    /\ last.op \in HeaderQueries =>
          /\ last.ret = HeaderAnswer(last.op, last.arg.id_bhh)
          /\ pc = "running"

\* The VRF seed of a written block was queried and is present, while the
\* other block has no HeaderRecord and its queries are absent.
C5_Witness ==
    /\ last.op = "get_vrf_seed_for_block"
    /\ IsSome(last.ret[2])
    /\ \E b \in HeaderIds :
          /\ headerWritten[b][1] = "none"
          /\ \A op \in HeaderQueries : HeaderAnswer(op, b) = Returned(None)

MinerRows(b) == {r \in payments : r.index_block_hash = b /\ r.miner = 1}
MinerAnswer(b) ==
    IF Cardinality(MinerRows(b)) = 1
    THEN Returned(Some((CHOOSE r \in MinerRows(b) : TRUE).columns[2].address))
    ELSE Returned(None)

\* C6: the miner address of b is present iff exactly one payment row of b has
\* the miner flag, and is that row's address; the HeaderRecord of b plays no
\* part, and rows of b without the flag never make it present.
C6_MinerAddress ==
    /\ \A b \in HeaderIds :
          \A step \in SqlSteps(SELECT_payments(payments, b), FALSE) :
              get_miner_address(step) = MinerAnswer(b)
    /\ last.op = "get_miner_address" =>
          /\ last.ret = MinerAnswer(last.arg.id_bhh)
          /\ pc = "running"

\* The miner address of a block without HeaderRecord was queried and is
\* present, and the block also has a payment row without the miner flag
\* that names another address.
C6_Witness ==
    /\ last.op = "get_miner_address"
    /\ IsSome(last.ret[2])
    /\ headerWritten[last.arg.id_bhh][1] = "none"
    /\ \E r \in payments :
          /\ r.index_block_hash = last.arg.id_bhh
          /\ r.miner = 0
          /\ r.columns[2].address # last.ret[2][2]

\* The rows the lookup of the last call selects.
LookedUp ==
    IF last.op = "get_miner_address" THEN MinerRows(last.arg.id_bhh)
    ELSE {r \in block_headers : r.index_block_hash = last.arg.id_bhh}

\* C7: a header or miner-payment lookup that yields more than one row, a
\* malformed record or a query failure aborts the process and returns no
\* answer; a lookup that yields no row returns absence and does not abort.
C7_AbortOnCorruption ==
    last.op \in HeaderQueries \cup {"get_miner_address"} =>
        /\ ( \/ Cardinality(LookedUp) > 1
             \/ last.arg.step[1] = "Error"
             \/ (last.arg.step[1] = "Row" /\ last.arg.step[2].columns[1] = "garbage") )
              => (pc = "aborted" /\ IsPanic(last.ret))
        /\ (LookedUp = {} /\ last.arg.step[1] = "Done")
              => (pc = "running" /\ last.ret = Returned(None))

\* The snapshot of fork `tip` at `height` in the committed ledger, from the
\* history of the forks.
ForkSnapshotAt(tip, height) ==
    IF snapshots[tip] # NoSnapshot /\ height + 1 <= Len(ancestry[tip])
    THEN Some(snapshots[ancestry[tip][height + 1]][2])
    ELSE None
CommittedHash(height, tip) ==
    LET sn == ForkSnapshotAt(tip, height)
    IN Returned(IF IsSome(sn) THEN Some(sn[2].burn_header_hash) ELSE None)
HeightIn(view, sortition_id) ==
    Returned(IF view[sortition_id] = NoSnapshot THEN None
             ELSE Some(view[sortition_id][2].block_height))

\* C4: with a write transaction open on fork A, a burn-header-hash query for
\* height H on another fork B returns the hash of fork B's snapshot at H,
\* and the transaction's context (its chain tip) is as before the call.
C4_OtherFork ==
    (/\ last.op = "Tx.get_burn_header_hash"
     /\ last.arg.sortition_id # last.arg.context.chain_tip
     /\ IsSome(ForkSnapshotAt(last.arg.sortition_id, last.arg.height)))
        => /\ last.ret = Returned(Some(
                  ForkSnapshotAt(last.arg.sortition_id, last.arg.height)[2].burn_header_hash))
           /\ txContext = last.arg.context

\* The query was answered for a fork B other than the transaction's fork A,
\* at a height where the two forks hold snapshots with different hashes.
C4_Witness ==
    /\ last.op = "Tx.get_burn_header_hash"
    /\ last.arg.sortition_id # last.arg.context.chain_tip
    /\ IsSome(last.ret[2])
    /\ LET a == get_ancestor_snapshot(txSnapshots, last.arg.height, last.arg.context.chain_tip)
       IN IsSome(a) /\ a[2].burn_header_hash # last.ret[2][2]
    /\ txContext.chain_tip = last.arg.context.chain_tip

BurnOps ==
    {"Tx.get_burn_block_height", "Tx.get_burn_header_hash",
     "Conn.get_burn_block_height", "Conn.get_burn_header_hash"}

\* Whether the last burn-state call asked for something the ledger it reads
\* does not hold.
Missing ==
    CASE last.op = "Tx.get_burn_block_height" -> txSnapshots[last.arg.sortition_id] = NoSnapshot
      [] last.op = "Conn.get_burn_block_height" -> snapshots[last.arg.sortition_id] = NoSnapshot
      [] OTHER -> ~IsSome(ForkSnapshotAt(last.arg.sortition_id, last.arg.height))

\* C8: in both modes and for both operations, a missing snapshot and any
\* underlying error, a failure to open the read-only handle or cursor
\* included, come back as None, and the process is never aborted.
C8_ErrorsAreAbsence ==
    last.op \in BurnOps =>
        /\ pc = "running"
        /\ ~IsPanic(last.ret)
        /\ (last.arg.fault # "none" \/ Missing) => last.ret = Returned(None)

\* C8 as amended: the same, except that a failure to reopen the read-only
\* handle in the transactional burn-header-hash query aborts the process.
C8_ErrorsAreAbsenceButReopen ==
    last.op \in BurnOps =>
        IF last.op = "Tx.get_burn_header_hash" /\ last.arg.fault = "open_err"
        THEN pc = "aborted" /\ IsPanic(last.ret)
        ELSE /\ pc = "running"
             /\ ~IsPanic(last.ret)
             /\ (last.arg.fault # "none" \/ Missing) => last.ret = Returned(None)

\* The transactional burn-header-hash query could not reopen the ledger
\* read-only, for a height and fork that hold a snapshot.
C8_Witness ==
    /\ last.op = "Tx.get_burn_header_hash"
    /\ last.arg.fault = "open_err"
    /\ ~Missing
    /\ pc = "aborted"

C10_SameInBothModes ==
    txOpen =>
        /\ \A s \in SortitionIds :
              /\ Tx_get_burn_block_height(SortitionHandleTx_self, s, "none")
                    = Conn_get_burn_block_height(SortitionDBConn_self, s, "none")
              /\ Conn_get_burn_block_height(SortitionDBConn_self, s, "none")
                    = HeightIn(snapshots, s)
        /\ \A h \in BurnHeights, s \in SortitionIds :
              /\ Tx_get_burn_header_hash(SortitionHandleTx_self, h, s, "none").ret
                    = Conn_get_burn_header_hash(SortitionDBConn_self, h, s, "none")
              /\ Conn_get_burn_header_hash(SortitionDBConn_self, h, s, "none")
                    = CommittedHash(h, s)

\* C10 as amended: they agree on burn header hash, and on the burn block
\* height of every SortitionId for which the transaction holds no
\* uncommitted snapshot; the transactional burn block height is read through
\* the write transaction and is present for its uncommitted snapshots too.
C10_SameButUncommitted ==
    /\ \A s \in SortitionIds :
          /\ Conn_get_burn_block_height(SortitionDBConn_self, s, "none") = HeightIn(snapshots, s)
          /\ txOpen =>
                /\ Tx_get_burn_block_height(SortitionHandleTx_self, s, "none")
                      = HeightIn(txSnapshots, s)
                /\ txSnapshots[s] = snapshots[s] =>
                      Tx_get_burn_block_height(SortitionHandleTx_self, s, "none")
                          = Conn_get_burn_block_height(SortitionDBConn_self, s, "none")
    /\ \A h \in BurnHeights, s \in SortitionIds :
          /\ Conn_get_burn_header_hash(SortitionDBConn_self, h, s, "none") = CommittedHash(h, s)
          /\ txOpen =>
                Tx_get_burn_header_hash(SortitionHandleTx_self, h, s, "none").ret
                    = Conn_get_burn_header_hash(SortitionDBConn_self, h, s, "none")
    /\ last.op \in {"Tx.get_burn_header_hash", "Conn.get_burn_header_hash"} =>
          last.ret = CommittedHash(last.arg.height, last.arg.sortition_id)
    /\ last.op = "Conn.get_burn_block_height" =>
          last.ret = HeightIn(snapshots, last.arg.sortition_id)
    /\ last.op = "Tx.get_burn_block_height" =>
          last.ret = HeightIn(txSnapshots, last.arg.sortition_id)

\* The transactional burn block height of an uncommitted snapshot was
\* queried and is present, while the read-only accessor has none for it; on
\* a fork of two committed snapshots both modes give the same hash.
C10_Witness ==
    /\ last.op = "Tx.get_burn_block_height"
    /\ IsSome(last.ret[2])
    /\ Conn_get_burn_block_height(SortitionDBConn_self, last.arg.sortition_id, "none")
          = Returned(None)
    /\ \E h \in BurnHeights, s \in SortitionIds :
          /\ h > 0
          /\ snapshots[s] # NoSnapshot
          /\ snapshots[s][2].block_height > h
          /\ IsSome(Conn_get_burn_header_hash(SortitionDBConn_self, h, s, "none")[2])

====
